---- MODULE Spec2Model ----
(***************************************************************************)
(* Model of flask_api.py: the API-key decorator, the key-issuance route,   *)
(* the five dataset routes and the CSV loader with its encoding fallback.  *)
(* Strings the code inspects character by character (bucket paths, tenant  *)
(* ids, the Authorization header) are sequences of one-character strings.  *)
(* The external collaborators (credential store, object store, chardet,    *)
(* pandas.read_csv) are oracles whose outcome is part of the input.        *)
(***************************************************************************)
EXTENDS Integers, Sequences, FiniteSets, TLC

VARIABLES pc, request, env, user_id, events, response, api_keys, loaded

vars == <<pc, request, env, user_id, events, response, api_keys, loaded>>

(* ------------------------------ bounds --------------------------------- *)
MaxIdLen == 2
MaxNameLen == 2

(* --------------------------- optional values --------------------------- *)
\* Python's None and a present value, in one record shape.
None == [some |-> FALSE, val |-> <<>>]
Some(x) == [some |-> TRUE, val |-> x]

\* Python truthiness of an optional string: None and "" are falsy.
Truthy(x) == x.some /\ x.val # <<>>

(* ------------------------------ strings -------------------------------- *)
RECURSIVE SeqsUpTo(_, _)
SeqsUpTo(chars, n) ==
  IF n = 0 THEN {<<>>}
  ELSE LET shorter == SeqsUpTo(chars, n - 1)
       IN shorter \cup {Append(s, c) : s \in shorter, c \in chars}

\* str.startswith
startswith(s, prefix) ==
  /\ Len(prefix) <= Len(s)
  /\ SubSeq(s, 1, Len(prefix)) = prefix

\* str.split(sep) for a one-character separator.
RECURSIVE split_from(_, _, _, _)
split_from(s, sep, i, cur) ==
  IF i > Len(s) THEN <<cur>>
  ELSE IF s[i] = sep THEN <<cur>> \o split_from(s, sep, i + 1, <<>>)
  ELSE split_from(s, sep, i + 1, Append(cur, s[i]))

split(s, sep) == split_from(s, sep, 1, <<>>)

(* ------------------------------ loader --------------------------------- *)
\* The fallback list of load_csv_from_supabase, in its order.
encodings == <<"utf-8", "latin1", "iso-8859-1", "cp1252", "utf-16", "ascii">>

EncodingSet == {encodings[i] : i \in 1..Len(encodings)}

\* What chardet can do: the import fails, detect raises, it reports no
\* encoding, or it reports a name (one of the list, one outside it).
DetectedNames == {"ascii", "Windows-1254"}
DetectOutcomes == {"ImportError", "Exception", "None"} \cup DetectedNames

\* What pandas.read_csv can do on one attempt.
ParseOutcomes == {"ok", "UnicodeDecodeError", "Exception"}

\* Column names of a parsed table.
Columns == {<<"i", "d">>, <<"n", "a", "m", "e">>}

\* A stored object, described by what detection and each parse attempt do
\* on its bytes: strict is the default-engine parse with the detected
\* encoding, lenient[e] the python-engine parse with encoding_errors=replace.
Blobs ==
  [detect : DetectOutcomes, strict : {"ok", "Exception"},
   lenient : [EncodingSet -> ParseOutcomes]]

\* The strict outcome is read only when a name was detected.
RealBlobs == {b \in Blobs : b.detect \notin DetectedNames => b.strict = "ok"}

NoBlob == [detect |-> "None", strict |-> "ok", lenient |-> [e \in EncodingSet |-> "ok"]]

\* supabase.storage.from_('datasets').download(path): the bytes, or an
\* exception (object missing, or the store unreachable).
Download(kind, blob) == [kind |-> kind, blob |-> blob]
NotDownloaded == Download("not_called", NoBlob)
DownloadErrors == {Download("not_found", NoBlob), Download("unavailable", NoBlob)}
AllDownloads == DownloadErrors \cup {Download("bytes", b) : b \in RealBlobs}

NoTable == [encoding |-> "", engine |-> "", columns |-> {}]
Table(encoding, engine) == [encoding |-> encoding, engine |-> engine, columns |-> Columns]

\* pd.read_csv(BytesIO(response), encoding=..., ...): the table or the exception.
read_csv(blob, encoding, engine) ==
  LET outcome == IF engine = "python" THEN blob.lenient[encoding] ELSE blob.strict
  IN [outcome |-> outcome,
      df |-> IF outcome = "ok" THEN Table(encoding, engine) ELSE NoTable]

Attempt(encoding, engine, outcome) ==
  [encoding |-> encoding, engine |-> engine, outcome |-> outcome]

LoadResult(df, attempts, errors, log, downloaded) ==
  [df |-> df, attempts |-> attempts, errors |-> errors, log |-> log,
   downloaded |-> downloaded]

\* Mutant: an "Unexpected error" is skipped without being recorded.
record_error_drop(errors, encoding, outcome) ==
  IF outcome = "UnicodeDecodeError"
  THEN Append(errors, [encoding |-> encoding, prefix |-> "", error |-> outcome])
  ELSE errors

\* errors.append(f"{encoding}: {str(e)}") / (f"{encoding}: Unexpected error: {str(e)}")
record_error(errors, encoding, outcome) ==
  IF outcome = "UnicodeDecodeError"
  THEN Append(errors, [encoding |-> encoding, prefix |-> "", error |-> outcome])
  ELSE Append(errors, [encoding |-> encoding, prefix |-> "Unexpected error: ", error |-> outcome])

\* Mutant: the loop does not return on success, the last success wins.
RECURSIVE fallback_loop_last(_, _, _, _, _)
fallback_loop_last(blob, i, attempts, errors, best) ==
  IF i > Len(encodings)
  THEN IF best.some
       THEN LoadResult(best, attempts, errors, "loaded_fallback", TRUE)
       ELSE LoadResult(None, attempts, errors, "all_encodings_failed", TRUE)
  ELSE LET r == read_csv(blob, encodings[i], "python")
           tried == Append(attempts, Attempt(encodings[i], "python", r.outcome))
       IN IF r.outcome = "ok"
          THEN fallback_loop_last(blob, i + 1, tried, errors, Some(r.df))
          ELSE fallback_loop_last(blob, i + 1, tried,
                                  record_error(errors, encodings[i], r.outcome), best)

fallback_keep_going(blob, i, attempts, errors) ==
  fallback_loop_last(blob, i, attempts, errors, None)

\* for encoding in encodings: try read_csv ... return df / except ... continue;
\* after the loop: print the errors, return None.
RECURSIVE fallback_loop(_, _, _, _)
fallback_loop(blob, i, attempts, errors) ==
  IF i > Len(encodings)
  THEN LoadResult(None, attempts, errors, "all_encodings_failed", TRUE)
  ELSE LET r == read_csv(blob, encodings[i], "python")
           tried == Append(attempts, Attempt(encodings[i], "python", r.outcome))
       IN IF r.outcome = "ok"
          THEN LoadResult(Some(r.df), tried, errors, "loaded_fallback", TRUE)
          ELSE fallback_loop(blob, i + 1, tried,
                             record_error(errors, encodings[i], r.outcome))

\* The chardet block: ImportError is passed over, any other exception
\* leaves through the function's outer handler, a detected name is tried.
detect_and_load(blob) ==
  IF blob.detect = "ImportError" THEN fallback_loop(blob, 1, <<>>, <<>>)
  ELSE IF blob.detect = "Exception"
    THEN LoadResult(None, <<>>, <<>>, "storage_error", TRUE)
  ELSE IF blob.detect = "None" THEN fallback_loop(blob, 1, <<>>, <<>>)
  ELSE LET r == read_csv(blob, blob.detect, "c")
           tried == <<Attempt(blob.detect, "c", r.outcome)>>
       IN IF r.outcome = "ok"
          THEN LoadResult(Some(r.df), tried, <<>>, "loaded_detected", TRUE)
          ELSE fallback_loop(blob, 1, tried, <<>>)

\* load_csv_from_supabase(bucket_path); download is what the store answers.
load_csv_from_supabase(bucket_path, download) ==
  IF ~bucket_path.some THEN LoadResult(None, <<>>, <<>>, "no_path", FALSE)
  ELSE IF download.kind # "bytes"
    THEN LoadResult(None, <<>>, <<>>, "storage_error", TRUE)
  ELSE detect_and_load(download.blob)

(* --------------------------- credential store -------------------------- *)
\* Tenant ids are the auth service's user ids: non-empty, without "/".
IdChars == {"1", "2"}
Tenants == SeqsUpTo(IdChars, MaxIdLen) \ {<<>>}

\* The key issued to a tenant, and a key no row holds.
key_of(t) == <<"k">> \o t
UnknownKey == <<"x">>

RECURSIVE SeqOf(_)
SeqOf(S) ==
  IF S = {} THEN <<>>
  ELSE LET x == CHOOSE y \in S : TRUE IN <<x>> \o SeqOf(S \ {x})

\* The api_keys table: one row per issued key.
InitialKeys == SeqOf({[key |-> key_of(t), user_id |-> t] : t \in Tenants})

\* supabase.table('api_keys').select("user_id").eq('key', api_key).execute().data
select_user_id(keys, api_key) == SelectSeq(keys, LAMBDA row : row.key = api_key)

\* supabase.auth.get_user(token): the user of a live token, or an exception.
Tokens == {<<"a">>, <<"b">>}
get_user(token) == IF token = <<"a">> THEN Some(<<"1">>) ELSE None

\* secrets.token_urlsafe(32): a key not seen before.
FreshKeys == {<<"n", "1">>, <<"n", "2">>}

(* ------------------------------ requests ------------------------------- *)
NameChars == {"f", "/"}
FileNames == SeqsUpTo(NameChars, MaxNameLen)

UserLiteral == <<"u", "s", "e", "r", "_">>

\* f"user_{request.user_id}/"
user_prefix(uid) == UserLiteral \o uid \o <<"/">>

\* The bucket_path query parameter: absent, a tenant's object, or some
\* other string.
BucketPaths ==
  {None}
    \cup {Some(user_prefix(t) \o f) : t \in Tenants, f \in FileNames}
    \cup {Some(<<>>), Some(UserLiteral \o <<"1">>), Some(<<"d", "/", "f">>)}

\* The X-API-Key header: absent, empty, unknown to the store, or issued.
KeyHeaders == {None, Some(<<>>), Some(UnknownKey)} \cup {Some(key_of(t)) : t \in Tenants}

\* The Host header, and the tenant its leading label maps to (the handlers
\* never read it).
Hosts == {"localhost:5000", "t2.example.com", "nobody.example.com"}
subdomain_qualifies(host) == host # "localhost:5000"
subdomain_tenant(host) == IF host = "t2.example.com" THEN Some(<<"2">>) ELSE None

\* The Authorization header of the key-issuance route.
Bearer == <<"B", "e", "a", "r", "e", "r">>
AuthHeaders ==
  {None, Some(Bearer), Some(<<"B", "a", "s", "i", "c", " ", "a">>)}
    \cup {Some(Bearer \o <<" ">> \o t) : t \in Tokens}

\* Objects the handlers are run against: every detection outcome, with
\* fallback parses that all end alike (SpecLoad runs the loader on all
\* of RealBlobs).
HandlerBlobs ==
  {b \in RealBlobs : \A e \in EncodingSet : b.lenient[e] = b.lenient["utf-8"]}
HandlerDownloads == DownloadErrors \cup {Download("bytes", b) : b \in HandlerBlobs}

NoLoad == LoadResult(None, <<>>, <<>>, "not_called", FALSE)
NoRequest ==
  [route |-> "none", api_key |-> None, authorization |-> None, host |-> "localhost:5000",
   bucket_path |-> None, column |-> None, value |-> None, n |-> None]
NoEnv == [cred |-> "not_called", download |-> NotDownloaded]
NoResponse == [status |-> 0, error |-> "", data |-> ""]

Response(status, error, data) == [status |-> status, error |-> error, data |-> data]

\* The n parameter of /api/data/head (type=int): absent or a number.
HeadNs == {None, Some(<<"3">>)}

\* What a handler leaves behind: the response, the steps it took in order,
\* and what the loader did.
Outcome(status, error, data, steps, load) ==
  [status |-> status, error |-> error, data |-> data, steps |-> steps, load |-> load]

(* ------------------------------ decorator ------------------------------ *)
Verdict(proceed, status, error, uid) ==
  [proceed |-> proceed, status |-> status, error |-> error, user_id |-> uid]

\* Mutant: a key the store does not hold is let through.
require_api_key_lax(keys, api_key, cred) ==
  IF ~Truthy(api_key) THEN Verdict(FALSE, 401, "No API key provided", None)
  ELSE IF cred = "raises" THEN Verdict(FALSE, 500, "Error verifying API key", None)
  ELSE LET data == select_user_id(keys, api_key.val)
       IN IF data = <<>> THEN Verdict(TRUE, 0, "", None)
          ELSE Verdict(TRUE, 0, "", Some(data[1].user_id))

\* require_api_key.decorated_function, up to the call of the wrapped handler.
require_api_key(keys, api_key, cred) ==
  IF ~Truthy(api_key) THEN Verdict(FALSE, 401, "No API key provided", None)
  ELSE IF cred = "raises" THEN Verdict(FALSE, 500, "Error verifying API key", None)
  ELSE LET data == select_user_id(keys, api_key.val)
       IN IF data = <<>> THEN Verdict(FALSE, 401, "Invalid API key", None)
          ELSE Verdict(TRUE, 0, "", Some(data[1].user_id))

\* Outcomes of the credential store the decorator can meet.
CredFor(api_key) == IF Truthy(api_key) THEN {"ok", "raises"} ELSE {"not_called"}

(* ------------------------------ handlers ------------------------------- *)
\* Mutant: the prefix is compared without its closing "/".
owns_dataset_noslash(uid, bucket_path) == startswith(bucket_path, UserLiteral \o uid)

\* bucket_path.startswith(f"user_{request.user_id}/")
owns_dataset(uid, bucket_path) == startswith(bucket_path, user_prefix(uid))

\* The part get_data_summary and get_head share: the ownership check, the
\* load and the 404; data names what the route returns from the table.
guarded_load(uid, bucket_path, download, data) ==
  IF ~bucket_path.some
  THEN \* None.startswith raises AttributeError, which no handler catches
       Outcome(500, "Internal Server Error", "", <<"AttributeError">>, NoLoad)
  ELSE IF ~owns_dataset(uid, bucket_path.val)
  THEN Outcome(403, "Unauthorized access to dataset", "", <<"denied">>, NoLoad)
  ELSE LET r == load_csv_from_supabase(bucket_path, download)
       IN IF ~r.df.some
          THEN Outcome(404, "No dataset found in Supabase storage", "",
                       <<"authorized", "download">>, r)
          ELSE Outcome(200, "", data, <<"authorized", "download", "table">>, r)

get_data_summary(uid, bucket_path, download) ==
  guarded_load(uid, bucket_path, download, "summary")

get_head(uid, bucket_path, download) ==
  guarded_load(uid, bucket_path, download, "head")

\* The start of filter_data, get_stats and get_unique_values: the load and
\* the 404, with no check before it.
unguarded_steps(r) == IF r.downloaded THEN <<"download">> ELSE <<>>

filter_data(bucket_path, column, value, download) ==
  LET r == load_csv_from_supabase(bucket_path, download)
  IN IF ~r.df.some
     THEN Outcome(404, "No dataset found in Supabase storage", "", unguarded_steps(r), r)
     ELSE IF ~Truthy(column) \/ ~Truthy(value)
     THEN Outcome(400, "Both column and value parameters are required", "",
                  unguarded_steps(r), r)
     ELSE IF column.val \notin r.df.val.columns
     THEN Outcome(400, "Column not found", "", unguarded_steps(r), r)
     ELSE Outcome(200, "", "filtered", unguarded_steps(r) \o <<"table">>, r)

get_stats(bucket_path, download) ==
  LET r == load_csv_from_supabase(bucket_path, download)
  IN IF ~r.df.some
     THEN Outcome(404, "No dataset found in Supabase storage", "", unguarded_steps(r), r)
     ELSE Outcome(200, "", "stats", unguarded_steps(r) \o <<"table">>, r)

get_unique_values(column, bucket_path, download) ==
  LET r == load_csv_from_supabase(bucket_path, download)
  IN IF ~r.df.some
     THEN Outcome(404, "No dataset found in Supabase storage", "", unguarded_steps(r), r)
     ELSE IF column \notin r.df.val.columns
     THEN Outcome(400, "Column not found", "", unguarded_steps(r), r)
     ELSE Outcome(200, "", "unique", unguarded_steps(r) \o <<"table">>, r)

(* ----------------------------- key issuance --------------------------- *)
\* console.log(token): the module never binds the name console.
console_log == "NameError"

Issued(status, error, data, keys, uid) ==
  [status |-> status, error |-> error, data |-> data, keys |-> keys, user_id |-> uid]

\* generate_api_key; fresh is the key token_urlsafe draws, cred what the
\* insert into api_keys does.
generate_api_key(keys, auth_header, fresh, cred) ==
  IF ~Truthy(auth_header) \/ ~startswith(auth_header.val, Bearer \o <<" ">>)
  THEN Issued(401, "No authorization token provided", "", keys, None)
  ELSE LET token == split(auth_header.val, " ")[2]
       IN IF console_log = "NameError"
          THEN \* caught by the outer handler: str(e) with status 500
               Issued(500, "name 'console' is not defined", "", keys, None)
          ELSE LET user == get_user(token)
               IN IF ~user.some \/ cred = "raises"
                  THEN Issued(401, "Invalid authorization token", "", keys, None)
                  ELSE Issued(200, "", "api_key",
                              Append(keys, [key |-> fresh, user_id |-> user.val]), user)

(* ------------------------------- actions ------------------------------- *)
Init ==
  /\ pc = "idle"
  /\ request = NoRequest
  /\ env = NoEnv
  /\ user_id = None
  /\ events = <<>>
  /\ response = NoResponse
  /\ api_keys = InitialKeys
  /\ loaded = NoLoad

\* The store is asked for the object only if the handler gets that far:
\* the downloads to draw from, given what a run of the handler did.
DownloadsFor(probe) == IF probe.load.downloaded THEN HandlerDownloads ELSE {NotDownloaded}
ProbeDownload == Download("not_found", NoBlob)

Respond(req, cred, download, uid, steps, out) ==
  /\ pc' = "responded"
  /\ request' = req
  /\ env' = [cred |-> cred, download |-> download]
  /\ user_id' = uid
  /\ events' = steps
  /\ response' = Response(out.status, out.error, out.data)
  /\ loaded' = out.load
  /\ UNCHANGED api_keys

\* The response of the decorator when it does not call the handler.
Refused(v) == Outcome(v.status, v.error, "", <<>>, NoLoad)

\* GET /api/data/summary, through @require_api_key.
GetDataSummary ==
  /\ pc = "idle"
  /\ \E api_key \in KeyHeaders, host \in Hosts, bucket_path \in BucketPaths :
     \E cred \in CredFor(api_key) :
       LET v == require_api_key(api_keys, api_key, cred)
           req == [NoRequest EXCEPT !.route = "summary", !.api_key = api_key,
                                    !.host = host, !.bucket_path = bucket_path]
       IN IF ~v.proceed
          THEN Respond(req, cred, NotDownloaded, v.user_id, <<>>, Refused(v))
          ELSE \E download \in
                   DownloadsFor(get_data_summary(v.user_id.val, bucket_path, ProbeDownload)) :
                 LET out == get_data_summary(v.user_id.val, bucket_path, download)
                 IN Respond(req, cred, download, v.user_id,
                            <<"tenant", "handler">> \o out.steps, out)

\* GET /api/data/head, through @require_api_key.
GetHead ==
  /\ pc = "idle"
  /\ \E api_key \in KeyHeaders, host \in Hosts, bucket_path \in BucketPaths, n \in HeadNs :
     \E cred \in CredFor(api_key) :
       LET v == require_api_key(api_keys, api_key, cred)
           req == [NoRequest EXCEPT !.route = "head", !.api_key = api_key,
                                    !.host = host, !.bucket_path = bucket_path, !.n = n]
       IN IF ~v.proceed
          THEN Respond(req, cred, NotDownloaded, v.user_id, <<>>, Refused(v))
          ELSE \E download \in
                   DownloadsFor(get_head(v.user_id.val, bucket_path, ProbeDownload)) :
                 LET out == get_head(v.user_id.val, bucket_path, download)
                 IN Respond(req, cred, download, v.user_id,
                            <<"tenant", "handler">> \o out.steps, out)

\* The column and value parameters of /api/data/filter.
ColumnParams == {None, Some(<<>>), Some(<<"i", "d">>), Some(<<"z", "z">>)}
ValueParams == {None, Some(<<"x">>)}

\* The routes without the decorator: no header is read.
OpenKeyHeaders == {None, Some(key_of(<<"1">>))}

\* GET /api/data/filter
FilterData ==
  /\ pc = "idle"
  /\ \E api_key \in OpenKeyHeaders, bucket_path \in BucketPaths,
        column \in ColumnParams, value \in ValueParams :
     \E download \in DownloadsFor(filter_data(bucket_path, column, value, ProbeDownload)) :
       LET out == filter_data(bucket_path, column, value, download)
           req == [NoRequest EXCEPT !.route = "filter", !.api_key = api_key,
                                    !.bucket_path = bucket_path, !.column = column,
                                    !.value = value]
       IN Respond(req, "not_called", download, None, <<"handler">> \o out.steps, out)

\* GET /api/data/stats
GetStats ==
  /\ pc = "idle"
  /\ \E api_key \in OpenKeyHeaders, bucket_path \in BucketPaths :
     \E download \in DownloadsFor(get_stats(bucket_path, ProbeDownload)) :
       LET out == get_stats(bucket_path, download)
           req == [NoRequest EXCEPT !.route = "stats", !.api_key = api_key,
                                    !.bucket_path = bucket_path]
       IN Respond(req, "not_called", download, None, <<"handler">> \o out.steps, out)

\* GET /api/data/unique/<column>
GetUniqueValues ==
  /\ pc = "idle"
  /\ \E api_key \in OpenKeyHeaders, bucket_path \in BucketPaths,
        column \in {<<"i", "d">>, <<"z", "z">>} :
     \E download \in DownloadsFor(get_unique_values(column, bucket_path, ProbeDownload)) :
       LET out == get_unique_values(column, bucket_path, download)
           req == [NoRequest EXCEPT !.route = "unique", !.api_key = api_key,
                                    !.bucket_path = bucket_path, !.column = Some(column)]
       IN Respond(req, "not_called", download, None, <<"handler">> \o out.steps, out)

GenerateApiKey ==
  /\ pc = "idle"
  /\ \E auth_header \in AuthHeaders, fresh \in FreshKeys, cred \in {"ok", "raises"} :
       LET out == generate_api_key(api_keys, auth_header, fresh, cred)
       IN /\ \A i \in 1..Len(api_keys) : api_keys[i].key # fresh
          /\ pc' = "responded"
          /\ request' = [NoRequest EXCEPT !.route = "generate-key",
                                          !.authorization = auth_header]
          /\ env' = [cred |-> cred, download |-> NotDownloaded]
          /\ user_id' = out.user_id
          /\ events' = <<"handler">>
          /\ response' = Response(out.status, out.error, out.data)
          /\ api_keys' = out.keys
          /\ loaded' = NoLoad

\* The response is sent and the request context is gone; the store stays.
Finish ==
  /\ pc = "responded"
  /\ pc' = "idle"
  /\ request' = NoRequest
  /\ env' = NoEnv
  /\ user_id' = None
  /\ events' = <<>>
  /\ response' = NoResponse
  /\ loaded' = NoLoad
  /\ UNCHANGED api_keys

Next == GenerateApiKey \/ GetDataSummary \/ GetHead \/ FilterData \/ GetStats \/ GetUniqueValues \/ Finish

Spec == Init /\ [][Next]_vars

(* --------------------- the loader on its own --------------------------- *)
LoadPaths == {None, Some(user_prefix(<<"1">>) \o <<"f">>)}

InitLoad ==
  /\ pc = "load_idle"
  /\ request = NoRequest
  /\ env = NoEnv
  /\ user_id = None
  /\ events = <<>>
  /\ response = NoResponse
  /\ api_keys = InitialKeys
  /\ loaded = NoLoad

\* One call of load_csv_from_supabase on any stored object.
LoadCall ==
  /\ pc = "load_idle"
  /\ \E bucket_path \in LoadPaths :
     \E download \in (IF bucket_path.some THEN AllDownloads ELSE {NotDownloaded}) :
       /\ pc' = "load_done"
       /\ request' = [NoRequest EXCEPT !.route = "load", !.bucket_path = bucket_path]
       /\ env' = [cred |-> "not_called", download |-> download]
       /\ loaded' = load_csv_from_supabase(bucket_path, download)
  /\ UNCHANGED <<user_id, events, response, api_keys>>

LoadReturn ==
  /\ pc = "load_done"
  /\ pc' = "load_idle"
  /\ request' = NoRequest
  /\ env' = NoEnv
  /\ loaded' = NoLoad
  /\ UNCHANGED <<user_id, events, response, api_keys>>

NextLoad == LoadCall \/ LoadReturn

SpecLoad == InitLoad /\ [][NextLoad]_vars

(* ============================== claims ================================= *)
Responded == pc = "responded"
ProtectedRoutes == {"summary", "head"}
DatasetRoutes == {"summary", "head", "filter", "stats", "unique"}

\* Position of the first x in seq, 0 when there is none.
IndexOf(seq, x) ==
  IF \E i \in 1..Len(seq) : seq[i] = x
  THEN CHOOSE i \in 1..Len(seq) : seq[i] = x /\ \A j \in 1..(i - 1) : seq[j] # x
  ELSE 0

\* The tenant the store maps the request's key to, if the lookup answered.
KeyTenant(t) ==
  /\ request.api_key.some
  /\ env.cred = "ok"
  /\ \E i \in 1..Len(api_keys) :
       api_keys[i].key = request.api_key.val /\ api_keys[i].user_id = t

\* "user_{t}/{f}" spelled out.
PathOf(t, f) == <<"u", "s", "e", "r", "_">> \o t \o <<"/">> \o f

LoadDone == pc = "load_done"
LoadedBlob == env.download.blob

\* The fallback list as the specification gives it.
FallbackOrder == <<"utf-8", "latin1", "iso-8859-1", "cp1252", "utf-16", "ascii">>

\* C1: on every dataset route, a result derived from the downloaded dataset
\* is returned only after a tenant was resolved for the request and
\* bucket_path was found to start with "user_{tenant}/".
C1_GuardBeforeData ==
  (Responded /\ request.route \in DatasetRoutes /\ IndexOf(events, "table") > 0)
    => /\ user_id.some
       /\ IndexOf(events, "tenant") > 0
       /\ IndexOf(events, "tenant") < IndexOf(events, "authorized")
       /\ IndexOf(events, "authorized") < IndexOf(events, "download")
       /\ IndexOf(events, "download") < IndexOf(events, "table")

\* C2: a summary or head request whose key belongs to T1 and whose
\* bucket_path is "user_{T2}/<filename>" with T2 # T1 gets 403 Unauthorized,
\* and the store is not asked for the object.
C2_CrossTenantRejected ==
  (Responded /\ request.route \in ProtectedRoutes /\ request.bucket_path.some)
    => \A t1 \in Tenants :
         KeyTenant(t1)
           => \A t2 \in Tenants \ {t1}, f \in FileNames :
                request.bucket_path.val = PathOf(t2, f)
                  => /\ response.status = 403
                     /\ response.error = "Unauthorized access to dataset"
                     /\ response.data = ""
                     /\ IndexOf(events, "download") = 0
                     /\ ~loaded.downloaded
                     /\ env.download.kind = "not_called"

\* C2 witness: tenant 1 asks for the head of an object of tenant 12, whose
\* prefix extends its own, and is refused.
C2_Witness ==
  /\ Responded
  /\ request.route = "head"
  /\ KeyTenant(<<"1">>)
  /\ request.bucket_path = Some(PathOf(<<"1", "2">>, <<"f">>))
  /\ response.status = 403

\* A key header that is present, not empty, and held by no row of the store.
UnknownKeyPresented ==
  /\ Truthy(request.api_key)
  /\ env.cred = "ok"
  /\ \A i \in 1..Len(api_keys) : api_keys[i].key # request.api_key.val

\* C3: on a protected route, no key header gives 401 "No API key provided"
\* and a key the store does not hold gives 401 "Invalid API key"; either
\* way the handler is not invoked, no tenant is bound and no dataset is
\* fetched or returned.
C3_RejectedKeyShortCircuits ==
  (Responded /\ request.route \in ProtectedRoutes)
    => /\ ~request.api_key.some
          => (response.status = 401 /\ response.error = "No API key provided")
       /\ UnknownKeyPresented
          => (response.status = 401 /\ response.error = "Invalid API key")
       /\ (~request.api_key.some \/ UnknownKeyPresented)
          => /\ IndexOf(events, "handler") = 0
             /\ ~user_id.some
             /\ ~loaded.downloaded
             /\ ~loaded.df.some
             /\ response.data = ""

\* C3 witness: a summary request with an unknown key was answered 401.
C3_Witness ==
  /\ Responded
  /\ request.route = "summary"
  /\ UnknownKeyPresented
  /\ request.bucket_path = Some(PathOf(<<"1">>, <<"f">>))
  /\ response.status = 401

\* C4: a protected request with a valid key of T1 and a host that resolves
\* to another tenant is answered 403, and one whose qualifying host matches
\* no subdomain is rejected; stated for the requests that are in order
\* otherwise (T1's own object, present and parseable).
C4_HostTenantEnforced ==
  \A t1 \in Tenants :
    (/\ Responded
     /\ request.route \in ProtectedRoutes
     /\ KeyTenant(t1)
     /\ request.bucket_path = Some(PathOf(t1, <<"f">>))
     /\ env.download.kind = "bytes"
     /\ \A i \in 1..Len(FallbackOrder) : LoadedBlob.lenient[FallbackOrder[i]] = "ok"
     /\ LoadedBlob.detect = "None"
     /\ subdomain_qualifies(request.host))
      => /\ (subdomain_tenant(request.host).some /\ subdomain_tenant(request.host).val # t1)
            => response.status = 403
         /\ ~subdomain_tenant(request.host).some => response.status >= 400

\* C5: an authenticated summary request without bucket_path is answered 400
\* with the error "bucket_path parameter is required".
C5_MissingPathIs400 ==
  (/\ Responded
   /\ request.route = "summary"
   /\ user_id.some
   /\ ~request.bucket_path.some)
    => /\ response.status = 400
       /\ response.error = "bucket_path parameter is required"

\* C6: bytes that some encoding of the fallback list parses are loaded as a
\* table, whatever detection did.
C6_FallbackAlwaysTried ==
  (/\ LoadDone
   /\ env.download.kind = "bytes"
   /\ \E i \in 1..Len(FallbackOrder) : LoadedBlob.lenient[FallbackOrder[i]] = "ok")
    => loaded.df.some

\* The attempts in their fixed order: the detected encoding first when one
\* was reported, then the fallback list.
ExpectedOrder(blob) ==
  (IF blob.detect \in {"ImportError", "Exception", "None"}
   THEN <<>>
   ELSE <<[encoding |-> blob.detect, engine |-> "c"]>>)
    \o [i \in 1..Len(FallbackOrder) |-> [encoding |-> FallbackOrder[i], engine |-> "python"]]

\* What the parse of one attempt does on the bytes.
OutcomeOn(blob, a) == IF a.engine = "c" THEN blob.strict ELSE blob.lenient[a.encoding]

\* C7: when load returns a table it is the table of attempt k of the fixed
\* order, attempts 1..k-1 were made and failed, and no attempt after k was
\* made; the table is the one of the first attempt of the order that parses
\* the bytes.
C7_FirstSuccessInOrder ==
  (LoadDone /\ loaded.df.some)
    => LET order == ExpectedOrder(LoadedBlob)
           k == Len(loaded.attempts)
       IN /\ k \in 1..Len(order)
          /\ \A j \in 1..k :
               /\ loaded.attempts[j].encoding = order[j].encoding
               /\ loaded.attempts[j].engine = order[j].engine
               /\ loaded.attempts[j].outcome = OutcomeOn(LoadedBlob, order[j])
               /\ (loaded.attempts[j].outcome = "ok") <=> (j = k)
          /\ loaded.df.val.encoding = order[k].encoding
          /\ loaded.df.val.engine = order[k].engine

\* C7 witness: detection named an encoding whose parse failed, the first
\* four fallbacks failed, and utf-16 gave the table although ascii parses too.
C7_Witness ==
  /\ LoadDone
  /\ LoadedBlob.detect = "Windows-1254"
  /\ LoadedBlob.lenient["ascii"] = "ok"
  /\ loaded.df.some
  /\ loaded.df.val.encoding = "utf-16"
  /\ Len(loaded.attempts) = 6

\* C8: a well-formed Bearer header whose token the store accepts for T is
\* answered 200 with the key and user_id = T, and the key is stored for T.
C8_KeyIssued ==
  \A tok \in Tokens :
    (/\ Responded
     /\ request.route = "generate-key"
     /\ request.authorization = Some(<<"B", "e", "a", "r", "e", "r", " ">> \o tok)
     /\ get_user(tok).some
     /\ env.cred = "ok")
      => /\ response.status = 200
         /\ response.data = "api_key"
         /\ user_id = get_user(tok)
         /\ Len(api_keys) > 0
         /\ api_keys[Len(api_keys)].user_id = get_user(tok).val

\* C9 as stated: the decode failure is reported only after every fallback
\* encoding was attempted and failed, and it carries one (encoding, error)
\* entry per attempted encoding, in the order the attempts were made.
C9_EntryPerAttempt ==
  (LoadDone /\ loaded.log = "all_encodings_failed")
    => /\ \A i \in 1..Len(FallbackOrder) :
            \E j \in 1..Len(loaded.attempts) :
              /\ loaded.attempts[j].encoding = FallbackOrder[i]
              /\ loaded.attempts[j].outcome # "ok"
       /\ Len(loaded.errors) = Len(loaded.attempts)
       /\ \A j \in 1..Len(loaded.attempts) :
            /\ loaded.errors[j].encoding = loaded.attempts[j].encoding
            /\ loaded.errors[j].error = loaded.attempts[j].outcome

\* C9 amended: the decode failure is reported (and None returned) only after
\* each of the six fallback encodings was attempted and failed; the error
\* list it prints has one entry per fallback encoding, in list order, with
\* that attempt's error; an attempt with a detected encoding, made first
\* and failed, has no entry, so the attempts are the entries plus at most
\* that one.
C9_FailureAfterWholeList ==
  (LoadDone /\ loaded.log = "all_encodings_failed")
    => LET n == Len(FallbackOrder)
           d == Len(loaded.attempts) - n
       IN /\ d \in {0, 1}
          /\ (d = 1) <=> (LoadedBlob.detect \notin {"ImportError", "Exception", "None"})
          /\ d = 1 => /\ loaded.attempts[1].encoding = LoadedBlob.detect
                      /\ loaded.attempts[1].engine = "c"
                      /\ loaded.attempts[1].outcome = LoadedBlob.strict
                      /\ loaded.attempts[1].outcome # "ok"
          /\ Len(loaded.errors) = n
          /\ \A i \in 1..n :
               /\ loaded.attempts[d + i].encoding = FallbackOrder[i]
               /\ loaded.attempts[d + i].engine = "python"
               /\ loaded.attempts[d + i].outcome # "ok"
               /\ loaded.attempts[d + i].outcome = LoadedBlob.lenient[FallbackOrder[i]]
               /\ loaded.errors[i].encoding = FallbackOrder[i]
               /\ loaded.errors[i].error = loaded.attempts[d + i].outcome
          /\ ~loaded.df.some

\* C9 witness: a failed detected-encoding attempt, then six failures of both
\* kinds: seven attempts, six entries, and the failure reported.
C9_Witness ==
  /\ LoadDone
  /\ loaded.log = "all_encodings_failed"
  /\ LoadedBlob.detect = "ascii"
  /\ LoadedBlob.lenient["utf-8"] = "UnicodeDecodeError"
  /\ LoadedBlob.lenient["utf-16"] = "Exception"
  /\ Len(loaded.attempts) = 7
  /\ Len(loaded.errors) = 6
  /\ ~loaded.df.some

\* C10: on the dataset routes an object-store failure is answered 500, 404
\* is answered only when the dataset does not exist, and a credential-store
\* failure is answered 500 without the handler being invoked.
C10_StoreFailuresAre500 ==
  (Responded /\ request.route \in DatasetRoutes)
    => /\ env.download.kind = "unavailable" => response.status = 500
       /\ response.status = 404 => env.download.kind = "not_found"
       /\ env.cred = "raises"
          => (response.status = 500 /\ IndexOf(events, "handler") = 0)

====
